---------------------------- MODULE Spec2Model ----------------------------
(***************************************************************************)
(* Model of the state-preparation core of the avian rigid-body engine:     *)
(*   - src/src/dynamics/rigid_body/world_query.rs                          *)
(*       MassPropertiesQuery  += / -=  ColliderMassProperties              *)
(*       RigidBodyQuery effective inverse mass / inertia, dominance        *)
(*   - src/src/prepare.rs                                                  *)
(*       PreparePlugin schedule, init_transforms, clamp_restitution        *)
(*                                                                         *)
(* The model is the "3d" build with Scalar = f32.  Scalars are exact       *)
(* rationals <<numerator, denominator>> (denominator > 0, lowest terms);   *)
(* a non-finite float (the result of a division by zero) is the single     *)
(* value NaN = <<0, 0>>, which every comparison rejects.  Rounding is not  *)
(* modelled: "within tolerance" in the code's tests is equality here,      *)
(* except where a test compares against decimal reference values.          *)
(***************************************************************************)
EXTENDS Integers, Sequences, FiniteSets, TLC

VARIABLES
    mass_props,   \* the MassPropertiesQueryItem of a body: mass, angular_inertia, center_of_mass
    log,          \* the += / -= operations applied to it so far: [op, rhs, before]
    world,        \* "app": a running app; otherwise the name of the unit test that built mass_props
    body,         \* one item of RigidBodyQuery: rb, mass, angular_inertia, rotation, locked_axes, dominance
    answer,       \* what the solver last read from that item
    config,       \* the PrepareConfig resource
    ents,         \* the world: entity id -> its components
    snapshot,     \* the world as it was when the PrepareSet that ran last began
    pc            \* the PrepareSet that ran last in the current step, "Idle" between steps

massVars == <<mass_props, log, world>>

bodyVars == <<body, answer>>

prepareVars == <<config, ents, snapshot, pc>>

vars == <<mass_props, log, world, body, answer, config, ents, snapshot, pc>>

(***************************************************************************)
(* Scalars                                                                 *)
(***************************************************************************)
Abs(n) == IF n < 0 THEN -n ELSE n

RECURSIVE GCD(_, _)
GCD(a, b) == IF b = 0 THEN a ELSE GCD(b, a % b)

NaN == <<0, 0>>

IsNaN(a) == a[2] = 0

Norm(n, d) ==
    IF d = 0 THEN NaN
    ELSE LET g == GCD(Abs(n), Abs(d))
             s == IF d < 0 THEN -1 ELSE 1
         IN  <<(s * n) \div g, (s * d) \div g>>

R(n) == <<n, 1>>

Frac(n, d) == Norm(n, d)

Zero == <<0, 1>>

One == <<1, 1>>

RNeg(a) == <<-a[1], a[2]>>

RAdd(a, b) ==
    IF IsNaN(a) \/ IsNaN(b) THEN NaN
    ELSE LET g == GCD(a[2], b[2])
         IN  Norm(a[1] * (b[2] \div g) + b[1] * (a[2] \div g), (a[2] \div g) * b[2])

RSub(a, b) == RAdd(a, RNeg(b))

RMul(a, b) ==
    IF IsNaN(a) \/ IsNaN(b) THEN NaN
    ELSE LET g1 == GCD(Abs(a[1]), b[2])
             g2 == GCD(Abs(b[1]), a[2])
         IN  Norm((a[1] \div g1) * (b[1] \div g2), (a[2] \div g2) * (b[2] \div g1))

\* x / 0 is not finite
RDiv(a, b) ==
    IF IsNaN(a) \/ IsNaN(b) \/ b[1] = 0 THEN NaN
    ELSE RMul(a, IF b[1] < 0 THEN <<-b[2], -b[1]>> ELSE <<b[2], b[1]>>)

RSign(a) == IF a[1] > 0 THEN 1 ELSE IF a[1] < 0 THEN -1 ELSE 0

\* a < b ; FALSE when either side is NaN, as for floats
RLt(a, b) == ~IsNaN(a) /\ ~IsNaN(b) /\ RSign(RSub(a, b)) < 0

\* a <= b
RLe(a, b) == ~IsNaN(a) /\ ~IsNaN(b) /\ RSign(RSub(a, b)) <= 0

\* f32::max : the other operand when one is NaN
RMax(a, b) == IF IsNaN(a) THEN b ELSE IF IsNaN(b) THEN a ELSE IF RLt(a, b) THEN b ELSE a

RAbs(a) == <<Abs(a[1]), a[2]>>

(***************************************************************************)
(* Vectors (Vector = Vec3) and 3x3 matrices (Matrix3), stored by rows      *)
(***************************************************************************)
Vec(x, y, z) == <<R(x), R(y), R(z)>>

VZero == <<Zero, Zero, Zero>>

VAdd(u, v) == <<RAdd(u[1], v[1]), RAdd(u[2], v[2]), RAdd(u[3], v[3])>>

VSub(u, v) == <<RSub(u[1], v[1]), RSub(u[2], v[2]), RSub(u[3], v[3])>>

VScale(u, s) == <<RMul(u[1], s), RMul(u[2], s), RMul(u[3], s)>>

VDiv(u, s) == <<RDiv(u[1], s), RDiv(u[2], s), RDiv(u[3], s)>>

VDot(u, v) == RAdd(RAdd(RMul(u[1], v[1]), RMul(u[2], v[2])), RMul(u[3], v[3]))

LengthSquared(u) == VDot(u, u)

MZero == <<VZero, VZero, VZero>>

Diag(a, b, c) == <<<<R(a), Zero, Zero>>, <<Zero, R(b), Zero>>, <<Zero, Zero, R(c)>>>>

MAdd(m, n) == <<VAdd(m[1], n[1]), VAdd(m[2], n[2]), VAdd(m[3], n[3])>>

MSub(m, n) == <<VSub(m[1], n[1]), VSub(m[2], n[2]), VSub(m[3], n[3])>>

MScale(m, s) == <<VScale(m[1], s), VScale(m[2], s), VScale(m[3], s)>>

MVec(m, v) == <<VDot(m[1], v), VDot(m[2], v), VDot(m[3], v)>>

\* d (x) d
Outer(d) == <<VScale(d, d[1]), VScale(d, d[2]), VScale(d, d[3])>>

\* s * Identity
Splat(s) == <<<<s, Zero, Zero>>, <<Zero, s, Zero>>, <<Zero, Zero, s>>>>

(***************************************************************************)
(* Mass properties.  Mass and AngularInertia are defined outside the two   *)
(* files modelled here; they follow the data model: Mass is a value with   *)
(* its cached inverse (inverse = 1/value when value > 0, else 0), and an   *)
(* AngularInertia is represented by its tensor value.                      *)
(***************************************************************************)
\* Mass::set / Mass::new
MassSet(v) == [value |-> v, inverse |-> IF RLt(Zero, v) THEN RDiv(One, v) ELSE Zero]

\* AngularInertia::shifted(mass, offset): the parallel-axis theorem
shifted(inertia, mass, offset) ==
    MAdd(inertia, MScale(MSub(Splat(LengthSquared(offset)), Outer(offset)), mass))

Props(m, i, c) == [mass |-> MassSet(m), angular_inertia |-> i, center_of_mass |-> c]

\* Scalar::EPSILON (f32): 2^-23
EpsilonDenominator == 8388608

EPSILON == <<1, EpsilonDenominator>>

\* a mass below EPSILON: 2^-24
Tiny == <<1, 2 * EpsilonDenominator>>

\* forgets the early return of add_assign
add_assign_unguarded(self, rhs) ==
    LET mass1 == self.mass.value
        mass2 == rhs.mass.value
        new_mass == RAdd(mass1, mass2)
        com1 == self.center_of_mass
        com2 == rhs.center_of_mass
        new_com == VDiv(VAdd(VScale(com1, mass1), VScale(com2, mass2)), new_mass)
        i1 == shifted(self.angular_inertia, mass1, VSub(new_com, com1))
        i2 == shifted(rhs.angular_inertia, mass2, VSub(new_com, com2))
    IN  [mass |-> MassSet(new_mass),
         angular_inertia |-> MAdd(i1, i2),
         center_of_mass |-> new_com]

\* adds the inertias without shifting them to the new center of mass
add_assign_unshifted(self, rhs) ==
    LET mass1 == self.mass.value
        mass2 == rhs.mass.value
        new_mass == RAdd(mass1, mass2)
        com1 == self.center_of_mass
        com2 == rhs.center_of_mass
        new_com == VDiv(VAdd(VScale(com1, mass1), VScale(com2, mass2)), new_mass)
    IN  IF RLe(new_mass, Zero) THEN self
        ELSE [mass |-> MassSet(new_mass),
              angular_inertia |-> MAdd(self.angular_inertia, rhs.angular_inertia),
              center_of_mass |-> new_com]

\* impl AddAssign<ColliderMassProperties> for MassPropertiesQueryItem
add_assign(self, rhs) ==
    LET mass1 == self.mass.value
        mass2 == rhs.mass.value
        new_mass == RAdd(mass1, mass2)
        com1 == self.center_of_mass
        com2 == rhs.center_of_mass
        new_com == VDiv(VAdd(VScale(com1, mass1), VScale(com2, mass2)), new_mass)
        i1 == shifted(self.angular_inertia, mass1, VSub(new_com, com1))
        i2 == shifted(rhs.angular_inertia, mass2, VSub(new_com, com2))
        new_inertia == MAdd(i1, i2)
    IN  IF RLe(new_mass, Zero) THEN self
        ELSE [mass |-> MassSet(new_mass),
              angular_inertia |-> new_inertia,
              center_of_mass |-> new_com]

\* divides by the new mass whenever it is positive, without the epsilon guard
sub_assign_no_epsilon(self, rhs) ==
    LET mass1 == self.mass.value
        mass2 == rhs.mass.value
        new_mass == RMax(RSub(mass1, mass2), Zero)
        com1 == self.center_of_mass
        com2 == rhs.center_of_mass
        new_com == IF RLt(Zero, new_mass)
                   THEN VDiv(VSub(VScale(com1, mass1), VScale(com2, mass2)), new_mass)
                   ELSE com1
        i1 == shifted(self.angular_inertia, mass1, VSub(new_com, com1))
        i2 == shifted(rhs.angular_inertia, mass2, VSub(new_com, com2))
    IN  IF RLe(RAdd(mass1, mass2), Zero) THEN self
        ELSE [mass |-> MassSet(new_mass),
              angular_inertia |-> MSub(i1, i2),
              center_of_mass |-> new_com]

\* returns early whenever the resulting mass is zero
sub_assign_guard_result(self, rhs) ==
    LET mass1 == self.mass.value
        mass2 == rhs.mass.value
        new_mass == RMax(RSub(mass1, mass2), Zero)
        com1 == self.center_of_mass
        com2 == rhs.center_of_mass
        new_com == IF RLt(EPSILON, new_mass)
                   THEN VDiv(VSub(VScale(com1, mass1), VScale(com2, mass2)), new_mass)
                   ELSE com1
        i1 == shifted(self.angular_inertia, mass1, VSub(new_com, com1))
        i2 == shifted(rhs.angular_inertia, mass2, VSub(new_com, com2))
    IN  IF RLe(new_mass, Zero) THEN self
        ELSE [mass |-> MassSet(new_mass),
              angular_inertia |-> MSub(i1, i2),
              center_of_mass |-> new_com]

\* stores mass1 - mass2 without the .max(0.0)
sub_assign_unclamped(self, rhs) ==
    LET mass1 == self.mass.value
        mass2 == rhs.mass.value
        new_mass == RSub(mass1, mass2)
        com1 == self.center_of_mass
        com2 == rhs.center_of_mass
        new_com == IF RLt(EPSILON, new_mass)
                   THEN VDiv(VSub(VScale(com1, mass1), VScale(com2, mass2)), new_mass)
                   ELSE com1
        i1 == shifted(self.angular_inertia, mass1, VSub(new_com, com1))
        i2 == shifted(rhs.angular_inertia, mass2, VSub(new_com, com2))
    IN  IF RLe(RAdd(mass1, mass2), Zero) THEN self
        ELSE [mass |-> [value |-> new_mass,
                        inverse |-> IF RLt(Zero, new_mass) THEN RDiv(One, new_mass) ELSE Zero],
              angular_inertia |-> MSub(i1, i2),
              center_of_mass |-> new_com]

\* impl SubAssign<ColliderMassProperties> for MassPropertiesQueryItem
sub_assign(self, rhs) ==
    LET mass1 == self.mass.value
        mass2 == rhs.mass.value
        new_mass == RMax(RSub(mass1, mass2), Zero)
        com1 == self.center_of_mass
        com2 == rhs.center_of_mass
        new_com == IF RLt(EPSILON, new_mass)
                   THEN VDiv(VSub(VScale(com1, mass1), VScale(com2, mass2)), new_mass)
                   ELSE com1
        i1 == shifted(self.angular_inertia, mass1, VSub(new_com, com1))
        i2 == shifted(rhs.angular_inertia, mass2, VSub(new_com, com2))
        new_inertia == MSub(i1, i2)
    IN  IF RLe(RAdd(mass1, mass2), Zero) THEN self
        ELSE [mass |-> MassSet(new_mass),
              angular_inertia |-> new_inertia,
              center_of_mass |-> new_com]

(***************************************************************************)
(* Inputs of the mass algebra                                              *)
(***************************************************************************)
\* number of += / -= operations applied to one aggregate
MaxOps == 2

\* MassPropertiesBundle::default(): all zero
DefaultProps == Props(Zero, MZero, VZero)

\* aggregates a body can be spawned with (default, or authored)
InitialAggregates ==
    { DefaultProps,
      Props(Zero, Diag(1, 1, 1), Vec(1, 0, 0)),
      Props(One, Diag(1, 1, 1), Vec(1, 0, 0)),
      Props(R(2), Diag(2, 1, 1), Vec(0, 0, 1)),
      Props(EPSILON, MZero, Vec(1, 0, 0)) }

\* ColliderMassProperties a collider can contribute
Contributions ==
    { Props(Zero, MZero, VZero),
      Props(Zero, Diag(1, 1, 1), Vec(1, 0, 0)),
      Props(One, MZero, VZero),
      Props(One, Diag(1, 1, 1), Vec(1, 0, 0)),
      Props(R(2), Diag(1, 2, 1), Vec(0, 1, 0)),
      Props(Tiny, MZero, Vec(0, 1, 0)) }

IsInt(a) == a[2] = 1

\* The operand pairs whose exact result fits the model's integers: masses
\* that are whole numbers, or a common center of mass, or (for -=) a result
\* that is not divided by the new mass.
Representable(op, self, rhs) ==
    \/ IsInt(self.mass.value) /\ IsInt(rhs.mass.value)
    \/ self.center_of_mass = rhs.center_of_mass
    \/ op = "sub" /\ ~RLt(EPSILON, RMax(RSub(self.mass.value, rhs.mass.value), Zero))

InitMass ==
    /\ mass_props \in InitialAggregates
    /\ log = <<>>
    /\ world = "app"
    /\ body = <<>>
    /\ answer = <<>>
    /\ config = <<>>
    /\ ents = <<>>
    /\ snapshot = <<>>
    /\ pc = "Idle"

\* mass_props += rhs
AddAssign ==
    \E rhs \in Contributions :
        /\ world = "app"
        /\ Len(log) < MaxOps
        /\ Representable("add", mass_props, rhs)
        /\ mass_props' = add_assign(mass_props, rhs)
        /\ log' = Append(log, [op |-> "add", rhs |-> rhs, before |-> mass_props])
        /\ world' = world
        /\ UNCHANGED <<bodyVars, prepareVars>>

\* mass_props -= rhs
SubAssign ==
    \E rhs \in Contributions :
        /\ world = "app"
        /\ Len(log) < MaxOps
        /\ Representable("sub", mass_props, rhs)
        /\ mass_props' = sub_assign(mass_props, rhs)
        /\ log' = Append(log, [op |-> "sub", rhs |-> rhs, before |-> mass_props])
        /\ world' = world
        /\ UNCHANGED <<bodyVars, prepareVars>>

\* contributions of any sign: the ones above and two of negative mass
AnyContributions ==
    Contributions \cup
        {[mass |-> [value |-> R(-1), inverse |-> Zero],
          angular_inertia |-> MZero,
          center_of_mass |-> Vec(1, 0, 0)],
         [mass |-> [value |-> R(-3), inverse |-> Zero],
          angular_inertia |-> Diag(1, 1, 1),
          center_of_mass |-> VZero]}

\* mass_props += rhs, whatever the sign of the mass of rhs
AddAssignAny ==
    \E rhs \in AnyContributions :
        /\ world = "app"
        /\ Len(log) < MaxOps
        /\ Representable("add", mass_props, rhs)
        /\ mass_props' = add_assign(mass_props, rhs)
        /\ log' = Append(log, [op |-> "add", rhs |-> rhs, before |-> mass_props])
        /\ world' = world
        /\ UNCHANGED <<bodyVars, prepareVars>>

\* mass_props -= rhs, whatever the sign of the mass of rhs
SubAssignAny ==
    \E rhs \in AnyContributions :
        /\ world = "app"
        /\ Len(log) < MaxOps
        /\ Representable("sub", mass_props, rhs)
        /\ mass_props' = sub_assign(mass_props, rhs)
        /\ log' = Append(log, [op |-> "sub", rhs |-> rhs, before |-> mass_props])
        /\ world' = world
        /\ UNCHANGED <<bodyVars, prepareVars>>

\* tests::mass_properties_add_assign_works, up to its assertions
Test_add_assign ==
    LET spawned == Props(Frac(16, 10), MZero, VScale(Vec(-1, 0, 0), Frac(38, 10)))
        collider_mass_props ==
            Props(Frac(81, 10), MZero, VAdd(VScale(Vec(1, 0, 0), Frac(12, 10)), Vec(0, 1, 0)))
    IN  /\ world = "app"
        /\ log = <<>>
        /\ mass_props' = add_assign(spawned, collider_mass_props)
        /\ log' = <<[op |-> "add", rhs |-> collider_mass_props, before |-> spawned]>>
        /\ world' = "mass_properties_add_assign_works"
        /\ UNCHANGED <<bodyVars, prepareVars>>

\* tests::mass_properties_sub_assign_works, up to its assertions
Test_sub_assign ==
    LET spawned == Props(Frac(81, 10), MZero, VScale(Vec(-1, 0, 0), Frac(38, 10)))
        collider_mass_props ==
            Props(Frac(16, 10), MZero, VAdd(VScale(Vec(1, 0, 0), Frac(12, 10)), Vec(0, 1, 0)))
    IN  /\ world = "app"
        /\ log = <<>>
        /\ mass_props' = sub_assign(spawned, collider_mass_props)
        /\ log' = <<[op |-> "sub", rhs |-> collider_mass_props, before |-> spawned]>>
        /\ world' = "mass_properties_sub_assign_works"
        /\ UNCHANGED <<bodyVars, prepareVars>>

\* the aggregate as operation i left it
After(i) == IF i = Len(log) THEN mass_props ELSE log[i + 1].before

(***************************************************************************)
(* Quaternions <<x, y, z, w>> with rational components.  The unit          *)
(* quaternions used are exact: the identity, half turns about an axis,     *)
(* and the third-of-a-turn (1 + i + j + k) / 2.                            *)
(***************************************************************************)
Quat(x, y, z, w) == <<x, y, z, w>>

QIdentity == <<Zero, Zero, Zero, One>>

\* half turn about X
QuatI == <<One, Zero, Zero, Zero>>

\* half turn about Z
QuatK == <<Zero, Zero, One, Zero>>

\* a third of a turn about (1, 1, 1)
QuatH == <<Frac(1, 2), Frac(1, 2), Frac(1, 2), Frac(1, 2)>>

\* Quat * Quat (Hamilton product)
QMul(a, b) ==
    <<RAdd(RAdd(RMul(a[4], b[1]), RMul(a[1], b[4])), RSub(RMul(a[2], b[3]), RMul(a[3], b[2]))),
      RAdd(RAdd(RMul(a[4], b[2]), RMul(a[2], b[4])), RSub(RMul(a[3], b[1]), RMul(a[1], b[3]))),
      RAdd(RAdd(RMul(a[4], b[3]), RMul(a[3], b[4])), RSub(RMul(a[1], b[2]), RMul(a[2], b[1]))),
      RSub(RMul(a[4], b[4]), RAdd(RAdd(RMul(a[1], b[1]), RMul(a[2], b[2])), RMul(a[3], b[3])))>>

\* Quat::inverse of a unit quaternion: the conjugate
QInverse(q) == <<RNeg(q[1]), RNeg(q[2]), RNeg(q[3]), q[4]>>

\* Quat * Vec3: the vector rotated by q
QRotate(q, v) ==
    LET r == QMul(QMul(q, <<v[1], v[2], v[3], Zero>>), QInverse(q))
    IN  <<r[1], r[2], r[3]>>

MTranspose(m) ==
    <<<<m[1][1], m[2][1], m[3][1]>>, <<m[1][2], m[2][2], m[3][2]>>, <<m[1][3], m[2][3], m[3][3]>>>>

\* Matrix3::from_quat
QMat(q) ==
    MTranspose(<<QRotate(q, <<One, Zero, Zero>>),
                 QRotate(q, <<Zero, One, Zero>>),
                 QRotate(q, <<Zero, Zero, One>>)>>)

MMul(m, n) ==
    LET cols == MTranspose(n)
    IN  <<MVec(cols, m[1]), MVec(cols, m[2]), MVec(cols, m[3])>>

(***************************************************************************)
(* RigidBodyQuery: the effective properties the solver reads.              *)
(* RigidBody::is_dynamic, LockedAxes::apply_to_vec / apply_to_rotation and *)
(* AngularInertia::rotated_inverse are defined outside the files modelled  *)
(* here and follow the component design of the resolver.                   *)
(***************************************************************************)
\* Option<T>: None is the empty sequence, Some(x) the sequence of x alone
None == <<>>

Some(x) == <<x>>

Unwrap(o) == o[1]

\* i8::MAX
I8Max == 127

is_dynamic(rb) == rb = "Dynamic"

\* LockedAxes::apply_to_vec: zeroes the locked translation axes
apply_to_vec(locked_axes, v) ==
    <<IF "TRANSLATION_X" \in locked_axes THEN Zero ELSE v[1],
      IF "TRANSLATION_Y" \in locked_axes THEN Zero ELSE v[2],
      IF "TRANSLATION_Z" \in locked_axes THEN Zero ELSE v[3]>>

\* LockedAxes::apply_to_rotation: zeroes the locked rotation axes of the tensor
apply_to_rotation(locked_axes, m) ==
    LET locked(j) == \/ j = 1 /\ "ROTATION_X" \in locked_axes
                     \/ j = 2 /\ "ROTATION_Y" \in locked_axes
                     \/ j = 3 /\ "ROTATION_Z" \in locked_axes
        row(r) == <<IF locked(1) THEN Zero ELSE r[1],
                    IF locked(2) THEN Zero ELSE r[2],
                    IF locked(3) THEN Zero ELSE r[3]>>
    IN  <<row(m[1]), row(m[2]), row(m[3])>>

\* AngularInertia::rotated_inverse: R * I^-1 * R^T
rotated_inverse(inverse, rot) ==
    LET rotation == QMat(rot)
    IN  MMul(MMul(rotation, inverse), MTranspose(rotation))

\* Vector::splat
VSplat(s) == <<s, s, s>>

\* answers with the stored inverse mass whatever the kind of the body
effective_inv_mass_any_kind(self) ==
    LET inv_mass == VSplat(self.mass.inverse)
    IN  IF self.locked_axes # None THEN apply_to_vec(Unwrap(self.locked_axes), inv_mass) ELSE inv_mass

\* RigidBodyQueryItem::effective_inv_mass
effective_inv_mass(self) ==
    IF ~is_dynamic(self.rb) THEN VZero
    ELSE LET inv_mass == VSplat(self.mass.inverse)
         IN  IF self.locked_axes # None THEN apply_to_vec(Unwrap(self.locked_axes), inv_mass)
             ELSE inv_mass

\* RigidBodyQueryItem::effective_world_inv_inertia (3d)
effective_world_inv_inertia(self) ==
    IF ~is_dynamic(self.rb) THEN MZero
    ELSE LET inv_inertia == rotated_inverse(self.angular_inertia.inverse, self.rotation)
         IN  IF self.locked_axes # None THEN apply_to_rotation(Unwrap(self.locked_axes), inv_inertia)
             ELSE inv_inertia

\* RigidBodyQueryItem::dominance
dominance(self) ==
    IF ~is_dynamic(self.rb) THEN I8Max
    ELSE IF self.dominance = None THEN 0 ELSE Unwrap(self.dominance)

\* leaves the locked axes out of account
effective_inverse_mass_unlocked(self) ==
    IF ~is_dynamic(self.rb) THEN VZero ELSE VSplat(self.mass.inverse)

\* RigidBodyQueryReadOnlyItem::effective_inverse_mass
effective_inverse_mass(self) ==
    IF ~is_dynamic(self.rb) THEN VZero
    ELSE LET inv_mass == VSplat(self.mass.inverse)
         IN  IF self.locked_axes # None THEN apply_to_vec(Unwrap(self.locked_axes), inv_mass)
             ELSE inv_mass

\* AngularInertia::INFINITY: the inverse is zero
AngularInertiaInfinity == [inverse |-> MZero]

\* RigidBodyQueryReadOnlyItem::effective_world_angular_intertia
effective_world_angular_intertia(self) ==
    IF ~is_dynamic(self.rb) THEN AngularInertiaInfinity
    ELSE LET inv_inertia == rotated_inverse(self.angular_inertia.inverse, self.rotation)
         IN  [inverse |-> IF self.locked_axes # None
                          THEN apply_to_rotation(Unwrap(self.locked_axes), inv_inertia)
                          ELSE inv_inertia]

\* RigidBodyQueryReadOnlyItem::dominance
dominance_read_only(self) ==
    IF ~is_dynamic(self.rb) THEN I8Max
    ELSE IF self.dominance = None THEN 0 ELSE Unwrap(self.dominance)

RigidBodyKinds == {"Dynamic", "Kinematic", "Static"}

LockedAxesBits ==
    {"TRANSLATION_X", "TRANSLATION_Y", "TRANSLATION_Z", "ROTATION_X", "ROTATION_Y", "ROTATION_Z"}

\* the bodies the solver may query
Bodies ==
    [rb : RigidBodyKinds,
     mass : {MassSet(Zero), MassSet(R(2))},
     angular_inertia : {[inverse |-> Diag(1, 2, 4)]},
     rotation : {QIdentity, QuatH},
     locked_axes : {None} \cup {Some(l) : l \in SUBSET LockedAxesBits},
     dominance : {None, Some(-128), Some(5), Some(I8Max)}]

InitBody ==
    /\ body \in Bodies
    /\ answer = None
    /\ mass_props = DefaultProps
    /\ log = <<>>
    /\ world = "app"
    /\ config = <<>>
    /\ ents = <<>>
    /\ snapshot = <<>>
    /\ pc = "Idle"

\* the solver reads a mutable item
Query ==
    /\ answer' = Some([item |-> "RigidBodyQueryItem",
                  effective_inv_mass |-> effective_inv_mass(body),
                  effective_world_inv_inertia |-> effective_world_inv_inertia(body),
                  dominance |-> dominance(body)])
    /\ body' = body
    /\ UNCHANGED <<massVars, prepareVars>>

\* the solver reads a read-only item
QueryReadOnly ==
    /\ answer' = Some([item |-> "RigidBodyQueryReadOnlyItem",
                  effective_inv_mass |-> effective_inverse_mass(body),
                  effective_world_inv_inertia |-> effective_world_angular_intertia(body).inverse,
                  dominance |-> dominance_read_only(body)])
    /\ body' = body
    /\ UNCHANGED <<massVars, prepareVars>>

(***************************************************************************)
(* PreparePlugin: the four PrepareSet phases of one physics step, and the  *)
(* entities they prepare.                                                  *)
(*                                                                         *)
(* A Transform is [translation, rotation, scale].  A GlobalTransform is    *)
(* kept as the [translation, rotation, scale] its compute_transform()      *)
(* returns; scales are uniform, so composing two of them is exact.         *)
(* The transform propagation of crate::sync and the components a spawned   *)
(* rigid body carries are defined outside the files modelled here.         *)
(***************************************************************************)
\* entity ids 1..NumEntities
NumEntities == 2

Entities == 1..NumEntities

TRS(t, r, s) == [translation |-> t, rotation |-> r, scale |-> s]

\* Transform::default(), GlobalTransform::default()
IdentityTransform == TRS(VZero, QIdentity, R(1))

\* GlobalTransform::transform_point
transform_point(gt, p) == VAdd(gt.translation, QRotate(gt.rotation, VScale(p, gt.scale)))

\* GlobalTransform * Transform
MulTransform(gt, t) ==
    TRS(transform_point(gt, t.translation), QMul(gt.rotation, t.rotation), RMul(gt.scale, t.scale))

NoEntity ==
    [alive |-> FALSE, rigid_body |-> FALSE, added |-> FALSE,
     transform |-> None, global_transform |-> None,
     position |-> None, rotation |-> None, previous_rotation |-> None,
     parent |-> None, restitution |-> None]

\* Query<(), Added<RigidBody>> / the Added<C> filter of init_transforms
AddedRigidBody(es, e) == es[e].alive /\ es[e].rigid_body /\ es[e].added

\* matches every rigid body, not only the newly added ones
match_any_rigid_body(es) == \E e \in Entities : es[e].alive /\ es[e].rigid_body

\* pub(crate) fn match_any<F: QueryFilter>
match_any(es) == \E e \in Entities : AddedRigidBody(es, e)

\* the query without its Added<C> filter
InitQuery_every_body(es, e) ==
    /\ es[e].alive
    /\ es[e].rigid_body
    /\ es[e].transform # None
    /\ es[e].global_transform # None
    /\ es[e].position # None
    /\ es[e].rotation # None

\* the entities the query of init_transforms yields
InitQuery(es, e) ==
    /\ AddedRigidBody(es, e)
    /\ es[e].transform # None
    /\ es[e].global_transform # None
    /\ es[e].position # None
    /\ es[e].rotation # None

\* parent.and_then(|parent| parents.get(parent.get()).ok())
ParentTransform(es, e) ==
    IF es[e].parent = None THEN None ELSE es[Unwrap(es[e].parent)].global_transform

\* writes PreviousRotation before Rotation is recomputed
init_entity_stale_previous(cfg, es, e) ==
    LET ent == es[e]
        transform == Unwrap(ent.transform)
        global_transform == Unwrap(ent.global_transform)
        parent_transform == ParentTransform(es, e)
        new_pos ==
            IF ent.parent # None
            THEN IF parent_transform # None
                 THEN Some(transform_point(Unwrap(parent_transform), transform.translation))
                 ELSE ent.position
            ELSE Some(global_transform.translation)
        new_rot ==
            IF ent.parent # None
            THEN LET parent_rot == IF parent_transform # None
                                   THEN Unwrap(parent_transform).rotation
                                   ELSE QIdentity
                 IN  Some(QMul(parent_rot, transform.rotation))
            ELSE Some(global_transform.rotation)
        prev == IF ent.previous_rotation # None THEN ent.rotation ELSE None
    IN  IF cfg.transform_to_position
        THEN [ent EXCEPT !.position = new_pos, !.rotation = new_rot, !.previous_rotation = prev]
        ELSE [ent EXCEPT !.previous_rotation = prev]

\* applies both directions when both switches are enabled
init_entity_both(cfg, es, e) ==
    LET ent == es[e]
        transform == Unwrap(ent.transform)
        global_transform == Unwrap(ent.global_transform)
        parent_transform == ParentTransform(es, e)
        new_pos ==
            IF ent.parent # None
            THEN IF parent_transform # None
                 THEN Some(transform_point(Unwrap(parent_transform), transform.translation))
                 ELSE ent.position
            ELSE Some(global_transform.translation)
        new_rot ==
            IF ent.parent # None
            THEN LET parent_rot == IF parent_transform # None
                                   THEN Unwrap(parent_transform).rotation
                                   ELSE QIdentity
                 IN  Some(QMul(parent_rot, transform.rotation))
            ELSE Some(global_transform.rotation)
        pos == IF cfg.transform_to_position THEN new_pos ELSE ent.position
        rot == IF cfg.transform_to_position THEN new_rot ELSE ent.rotation
        new_translation ==
            IF parent_transform # None
            THEN VSub(Unwrap(pos), Unwrap(parent_transform).translation)
            ELSE Unwrap(pos)
        new_rotation ==
            IF parent_transform # None
            THEN QMul(Unwrap(rot), QInverse(Unwrap(parent_transform).rotation))
            ELSE Unwrap(rot)
        new_transform ==
            IF cfg.position_to_transform
            THEN Some([transform EXCEPT !.translation = new_translation,
                                        !.rotation = new_rotation])
            ELSE ent.transform
    IN  [ent EXCEPT !.position = pos, !.rotation = rot, !.transform = new_transform,
                    !.previous_rotation = IF ent.previous_rotation # None THEN rot ELSE None]

\* with a parent, takes the local translation and rotation as the absolute ones
init_entity_ignores_parent(cfg, es, e) ==
    LET ent == es[e]
        transform == Unwrap(ent.transform)
        global_transform == Unwrap(ent.global_transform)
        parent_transform == ParentTransform(es, e)
        new_pos ==
            IF ent.parent # None
            THEN Some(transform.translation)
            ELSE Some(global_transform.translation)
        new_rot ==
            IF ent.parent # None
            THEN Some(transform.rotation)
            ELSE Some(global_transform.rotation)
        new_translation ==
            IF parent_transform # None
            THEN VSub(Unwrap(ent.position), Unwrap(parent_transform).translation)
            ELSE Unwrap(ent.position)
        new_rotation ==
            IF parent_transform # None
            THEN QMul(Unwrap(ent.rotation), QInverse(Unwrap(parent_transform).rotation))
            ELSE Unwrap(ent.rotation)
        synced ==
            IF cfg.transform_to_position
            THEN [ent EXCEPT !.position = new_pos, !.rotation = new_rot]
            ELSE IF cfg.position_to_transform
                 THEN [ent EXCEPT !.transform =
                           Some([transform EXCEPT !.translation = new_translation,
                                                  !.rotation = new_rotation])]
                 ELSE ent
    IN  IF ent.previous_rotation # None
        THEN [synced EXCEPT !.previous_rotation = synced.rotation]
        ELSE synced

\* the body of the loop of init_transforms, for the entity e the query yields
init_entity(cfg, es, e) ==
    LET ent == es[e]
        transform == Unwrap(ent.transform)
        global_transform == Unwrap(ent.global_transform)
        parent_transform == ParentTransform(es, e)
        \* transform_to_position: initialize Position and Rotation
        new_pos ==
            IF ent.parent # None
            THEN IF parent_transform # None
                 THEN Some(transform_point(Unwrap(parent_transform), transform.translation))
                 ELSE ent.position
            ELSE Some(global_transform.translation)
        new_rot ==
            IF ent.parent # None
            THEN LET parent_rot == IF parent_transform # None
                                   THEN Unwrap(parent_transform).rotation
                                   ELSE QIdentity
                 IN  Some(QMul(parent_rot, transform.rotation))
            ELSE Some(global_transform.rotation)
        \* position_to_transform: initialize the Transform
        new_translation ==
            IF parent_transform # None
            THEN VSub(Unwrap(ent.position), Unwrap(parent_transform).translation)
            ELSE Unwrap(ent.position)
        new_rotation ==
            IF parent_transform # None
            THEN QMul(Unwrap(ent.rotation), QInverse(Unwrap(parent_transform).rotation))
            ELSE Unwrap(ent.rotation)
        synced ==
            IF cfg.transform_to_position
            THEN [ent EXCEPT !.position = new_pos, !.rotation = new_rot]
            ELSE IF cfg.position_to_transform
                 THEN [ent EXCEPT !.transform =
                           Some([transform EXCEPT !.translation = new_translation,
                                                  !.rotation = new_rotation])]
                 ELSE ent
    IN  IF ent.previous_rotation # None
        THEN [synced EXCEPT !.previous_rotation = synced.rotation]
        ELSE synced

\* runs the loop also when both switches are off
init_transforms_no_early_return(cfg, es) ==
    [e \in Entities |-> IF InitQuery(es, e) THEN init_entity(cfg, es, e) ELSE es[e]]

\* pub fn init_transforms<C: Component>, with C = RigidBody
init_transforms(cfg, es) ==
    IF ~cfg.position_to_transform /\ ~cfg.transform_to_position
    THEN es
    ELSE [e \in Entities |-> IF InitQuery(es, e) THEN init_entity(cfg, es, e) ELSE es[e]]

\* Scalar::clamp(0.0, 1.0)
Clamp01(x) == IF RLt(x, Zero) THEN Zero ELSE IF RLt(One, x) THEN One ELSE x

\* clamps from below only
clamp_restitution_lower_only(es) ==
    [e \in Entities |->
        IF es[e].restitution # None /\ Unwrap(es[e].restitution).changed
        THEN [es[e] EXCEPT !.restitution =
                 Some([coefficient |-> RMax(Unwrap(es[e].restitution).coefficient, Zero),
                       changed |-> TRUE])]
        ELSE es[e]]

\* fn clamp_restitution(Query<&mut Restitution, Changed<Restitution>>)
clamp_restitution(es) ==
    [e \in Entities |->
        IF es[e].restitution # None /\ Unwrap(es[e].restitution).changed
        THEN [es[e] EXCEPT !.restitution =
                 Some([coefficient |-> Clamp01(Unwrap(es[e].restitution).coefficient),
                       changed |-> TRUE])]
        ELSE es[e]]

\* the change ticks as the systems of the next step see them
Seen(es) ==
    [e \in Entities |->
        IF es[e].restitution # None
        THEN [es[e] EXCEPT !.restitution =
                 Some([Unwrap(es[e].restitution) EXCEPT !.changed = FALSE])]
        ELSE es[e]]

\* sync_simple_transforms_physics, propagate_transforms_physics:
\* GlobalTransform = Transform at a root, parent's GlobalTransform * Transform below it
RECURSIVE Resolved(_, _)
Resolved(es, e) ==
    IF es[e].transform = None \/ es[e].global_transform = None THEN None
    ELSE IF es[e].parent = None THEN es[e].transform
    ELSE LET above == Resolved(es, Unwrap(es[e].parent))
         IN  IF above = None THEN es[e].global_transform
             ELSE Some(MulTransform(Unwrap(above), Unwrap(es[e].transform)))

propagate_transforms_physics(es) ==
    [e \in Entities |-> [es[e] EXCEPT !.global_transform = Resolved(es, e)]]

(***************************************************************************)
(* The world and the steps of the schedule                                 *)
(***************************************************************************)
Component(present, value) == IF present THEN Some(value) ELSE None

\* what an entity is spawned with
Bundle(rb, transform, position, rotation, previous_rotation, restitution) ==
    [NoEntity EXCEPT
        !.alive = TRUE, !.rigid_body = rb, !.added = rb,
        !.transform = transform,
        !.global_transform = IF transform = None THEN None ELSE Some(IdentityTransform),
        !.position = position, !.rotation = rotation,
        !.previous_rotation = previous_rotation,
        !.restitution = restitution]

Authored(coefficient) == Some([coefficient |-> coefficient, changed |-> TRUE])

\* an entity without any component
PlainEntity == Bundle(FALSE, None, None, None, None, None)

\* a scene node that is no rigid body
SceneNode == Bundle(FALSE, Some(TRS(Vec(1, 2, 3), QuatK, R(2))), None, None, None, None)

\* rigid bodies, with the components they hold when the step begins
BodyWithTransform ==
    Bundle(TRUE, Some(TRS(Vec(1, 2, 3), QuatH, R(1))),
           Some(VZero), Some(QIdentity), Some(QIdentity), Authored(Frac(3, 2)))

BodyWithPosition ==
    Bundle(TRUE, Some(IdentityTransform),
           Some(Vec(-1, 3, -3)), Some(QuatI), Some(QIdentity), Authored(Frac(-1, 2)))

BodyWithBoth ==
    Bundle(TRUE, Some(TRS(Vec(0, 1, 0), QuatK, R(1))),
           Some(Vec(1, 0, 0)), Some(QuatH), None, Authored(Frac(1, 2)))

\* rigid bodies spawned with only a Position, only a Rotation, nothing but RigidBody
BodyWithOnlyPosition ==
    Bundle(TRUE, Some(IdentityTransform),
           Some(Vec(10, 1, 5)), Some(QIdentity), Some(QIdentity), None)

BodyWithOnlyRotation ==
    Bundle(TRUE, Some(IdentityTransform),
           Some(VZero), Some(QuatK), Some(QIdentity), None)

BodyWithoutTransforms ==
    Bundle(TRUE, Some(IdentityTransform),
           Some(VZero), Some(QIdentity), Some(QIdentity), None)

Bundles ==
    {PlainEntity, SceneNode, BodyWithTransform, BodyWithPosition, BodyWithBoth,
     BodyWithOnlyPosition, BodyWithOnlyRotation, BodyWithoutTransforms}

\* coefficients a Restitution can be authored with
Coefficients == {R(-1), Zero, Frac(1, 2), One, R(2)}

\* a rigid body with default transforms and an authored Restitution
BodyWithRestitution(c) ==
    Bundle(TRUE, Some(IdentityTransform), Some(VZero), Some(QIdentity), Some(QIdentity),
           Authored(c))

\* entities are spawned in the order of their ids
NextEntity(e) == ~ents[e].alive /\ \A d \in Entities : d < e => ents[d].alive

Parents(e) == {None} \cup {Some(d) : d \in {d \in Entities : d < e /\ ents[d].alive}}

InitPrepare ==
    /\ config \in [position_to_transform : BOOLEAN, transform_to_position : BOOLEAN]
    /\ ents = [e \in Entities |-> NoEntity]
    /\ snapshot = ents
    /\ pc = "Idle"
    /\ mass_props = DefaultProps
    /\ log = <<>>
    /\ world = "app"
    /\ body = <<>>
    /\ answer = <<>>

\* between two steps the app spawns an entity, possibly as the child of another
Spawn ==
    \E e \in Entities, b \in Bundles :
        \E parent \in Parents(e) :
            /\ pc = "Idle"
            /\ NextEntity(e)
            /\ ents' = [ents EXCEPT ![e] = [b EXCEPT !.parent = parent]]
            /\ snapshot' = ents'
            /\ UNCHANGED <<config, pc, massVars, bodyVars>>

\* between two steps the app spawns a rigid body with a Restitution
SpawnBody ==
    \E e \in Entities, c \in Coefficients :
        /\ pc = "Idle"
        /\ NextEntity(e)
        /\ ents' = [ents EXCEPT ![e] = BodyWithRestitution(c)]
        /\ snapshot' = ents'
        /\ UNCHANGED <<config, pc, massVars, bodyVars>>

\* between two steps the app writes the Restitution of a body
Author ==
    \E e \in Entities, c \in Coefficients :
        /\ pc = "Idle"
        /\ ents[e].restitution # None
        /\ ents' = [ents EXCEPT ![e].restitution = Authored(c)]
        /\ snapshot' = ents'
        /\ UNCHANGED <<config, pc, massVars, bodyVars>>

\* where the integrator takes a body to
MovedPosition == Vec(4, 4, 4)

MovedRotation == QInverse(QuatH)

\* after a step the integrator moves a body that has been initialised
Integrate ==
    \E e \in Entities :
        /\ pc = "Idle"
        /\ ents[e].rigid_body
        /\ ~ents[e].added
        /\ ents[e].position # None
        /\ ents[e].rotation # None
        /\ ents[e].position # Some(MovedPosition)
        /\ ents' = [ents EXCEPT
               ![e].position = Some(MovedPosition),
               ![e].rotation = Some(MovedRotation),
               ![e].previous_rotation =
                   IF ents[e].previous_rotation # None THEN ents[e].rotation ELSE None]
        /\ snapshot' = ents'
        /\ UNCHANGED <<config, pc, massVars, bodyVars>>

\* PrepareSet::First: no system of the plugin
RunFirst ==
    /\ pc = "Idle"
    /\ pc' = "First"
    /\ snapshot' = ents
    /\ UNCHANGED <<config, ents, massVars, bodyVars>>

\* PrepareSet::PropagateTransforms: the propagation systems, if match_any::<Added<RigidBody>>
RunPropagateTransforms ==
    /\ pc = "First"
    /\ pc' = "PropagateTransforms"
    /\ ents' = IF match_any(ents) THEN propagate_transforms_physics(ents) ELSE ents
    /\ snapshot' = ents
    /\ UNCHANGED <<config, massVars, bodyVars>>

\* init_transforms scheduled without its place in the chain of sets
RunInitTransforms_unordered ==
    /\ pc = "First"
    /\ pc' = "InitTransforms"
    /\ ents' = [e \in Entities |-> [init_transforms(config, ents)[e] EXCEPT !.added = FALSE]]
    /\ snapshot' = ents
    /\ UNCHANGED <<config, massVars, bodyVars>>

\* PrepareSet::InitTransforms: init_transforms::<RigidBody>; the bodies it saw are no longer Added
RunInitTransforms ==
    /\ pc = "PropagateTransforms"
    /\ pc' = "InitTransforms"
    /\ ents' = [e \in Entities |-> [init_transforms(config, ents)[e] EXCEPT !.added = FALSE]]
    /\ snapshot' = ents
    /\ UNCHANGED <<config, massVars, bodyVars>>

\* PrepareSet::Finalize: clamp_restitution; what it saw is no longer Changed
RunFinalize ==
    /\ pc = "InitTransforms"
    /\ pc' = "Finalize"
    /\ ents' = Seen(clamp_restitution(ents))
    /\ snapshot' = ents
    /\ UNCHANGED <<config, massVars, bodyVars>>

\* the rest of the physics schedule
EndStep ==
    /\ pc = "Finalize"
    /\ pc' = "Idle"
    /\ snapshot' = ents
    /\ UNCHANGED <<config, ents, massVars, bodyVars>>

(***************************************************************************)
(* Specifications                                                          *)
(***************************************************************************)
\* the mass algebra on one aggregate
NextMass == AddAssign \/ SubAssign \/ Test_add_assign \/ Test_sub_assign

SpecMass == InitMass /\ [][NextMass]_vars

\* the mass algebra with contributions of any sign
NextMassAny == AddAssignAny \/ SubAssignAny

SpecMassAny == InitMass /\ [][NextMassAny]_vars

\* the solver querying one body
NextBody == Query \/ QueryReadOnly

SpecBody == InitBody /\ [][NextBody]_vars

\* steps of the prepare schedule over spawned entities
NextPrepare ==
    \/ Spawn
    \/ RunFirst
    \/ RunPropagateTransforms
    \/ RunInitTransforms
    \/ RunFinalize
    \/ EndStep

SpecPrepare == InitPrepare /\ [][NextPrepare]_vars

\* steps of the prepare schedule over bodies whose Restitution is authored
NextRestitution ==
    \/ SpawnBody
    \/ Author
    \/ RunFirst
    \/ RunPropagateTransforms
    \/ RunInitTransforms
    \/ RunFinalize
    \/ EndStep

SpecRestitution == InitPrepare /\ [][NextRestitution]_vars

\* steps of the prepare schedule with the integrator moving bodies between them
NextSteps ==
    \/ Spawn
    \/ Integrate
    \/ RunFirst
    \/ RunPropagateTransforms
    \/ RunInitTransforms
    \/ RunFinalize
    \/ EndStep

SpecSteps == InitPrepare /\ [][NextSteps]_vars

(***************************************************************************)
(* Properties of the mass algebra (SpecMass)                               *)
(***************************************************************************)
Ops == 1..Len(log)

Mass1(i) == log[i].before.mass.value

Mass2(i) == log[i].rhs.mass.value

\* operation i+1 removes the contribution operation i combined
RoundTrip(i) ==
    /\ i + 1 \in Ops
    /\ log[i].op = "add"
    /\ log[i + 1].op = "sub"
    /\ log[i + 1].rhs = log[i].rhs

\* C1 as stated: combining any contribution of positive mass into any aggregate and
\* removing it again gives back the aggregate's mass, inverse mass, center of mass
\* and angular inertia.
C1_RoundTripEveryAggregate ==
    \A i \in Ops :
        RoundTrip(i) /\ RLt(Zero, Mass2(i)) => After(i + 1) = log[i].before

\* C1 amended: the round trip gives back the aggregate when the aggregate's mass
\* exceeds EPSILON, or its center of mass is the contribution's, or the contribution
\* is massless.
C1_RoundTrip ==
    \A i \in Ops :
        /\ RoundTrip(i)
        /\ \/ RLt(EPSILON, Mass1(i))
           \/ log[i].before.center_of_mass = log[i].rhs.center_of_mass
           \/ Mass2(i) = Zero
        => After(i + 1) = log[i].before

C1_Witness ==
    \E i \in Ops :
        /\ RoundTrip(i)
        /\ RLt(EPSILON, Mass1(i))
        /\ RLt(Zero, Mass2(i))
        /\ log[i].before.center_of_mass # log[i].rhs.center_of_mass
        /\ log[i].rhs.angular_inertia # MZero
        /\ After(i) # log[i].before
        /\ After(i + 1) = log[i].before

\* the resulting mass of operation i: mass1 + mass2 for +=, max(mass1 - mass2, 0) for -=
Resultant(i) ==
    IF log[i].op = "add" THEN RAdd(Mass1(i), Mass2(i))
    ELSE RMax(RSub(Mass1(i), Mass2(i)), Zero)

\* C4 as stated: a += or -= whose resulting mass or whose input total mass is not
\* positive leaves the aggregate unchanged.
C4_NoOpOnResultantOrTotal ==
    \A i \in Ops :
        RLe(Resultant(i), Zero) \/ RLe(RAdd(Mass1(i), Mass2(i)), Zero)
        => After(i) = log[i].before

\* C4 amended: a += or -= whose input total mass mass1 + mass2 is not positive
\* leaves the aggregate unchanged; a -= whose total is positive is applied even
\* when its resulting mass is zero.
C4_NoOpOnTotal ==
    \A i \in Ops :
        /\ RLe(RAdd(Mass1(i), Mass2(i)), Zero) => After(i) = log[i].before
        /\ log[i].op = "sub" /\ RLt(Zero, RAdd(Mass1(i), Mass2(i))) /\ RLe(Resultant(i), Zero)
           => After(i).mass = MassSet(Zero)

C4_Witness ==
    /\ \E i \in Ops :
        /\ log[i].op = "add"
        /\ RLe(RAdd(Mass1(i), Mass2(i)), Zero)
        /\ log[i].rhs.angular_inertia # MZero
        /\ log[i].rhs.center_of_mass # log[i].before.center_of_mass
    /\ \E i \in Ops :
        /\ log[i].op = "sub"
        /\ RLe(RAdd(Mass1(i), Mass2(i)), Zero)
        /\ log[i].rhs.angular_inertia # MZero

\* entry (i, j) of inertia moved by d with the parallel-axis theorem:
\* I + m (|d|^2 Identity - d (x) d)
ParallelAxis(inertia, m, d, i, j) ==
    RAdd(inertia[i][j],
         RMul(m, RSub(IF i = j THEN RAdd(RAdd(RMul(d[1], d[1]), RMul(d[2], d[2])), RMul(d[3], d[3]))
                      ELSE Zero,
                      RMul(d[i], d[j]))))

\* |a - b| <= eps
Near(a, b, eps) == RLe(RAbs(RSub(a, b)), eps)

Millionth == Frac(1, 1000000)

\* C5: a += with mass1 + mass2 > 0 leaves mass = mass1 + mass2 with inverse 1/mass,
\* center of mass (com1 mass1 + com2 mass2) / (mass1 + mass2), and the sum of both
\* inertias, each moved to the new center of mass by the parallel-axis theorem;
\* 1.6 at (-3.8, 0, 0) += 8.1 at (1.2, 1, 0) gives 9.7 at (0.375257, 0.835051, 0).
C5_CombineResult ==
    /\ \A n \in Ops :
        log[n].op = "add" /\ RLt(Zero, RAdd(Mass1(n), Mass2(n))) =>
            LET a == log[n].before
                x == log[n].rhs
                r == After(n)
                total == RAdd(Mass1(n), Mass2(n))
            IN  /\ r.mass.value = total
                /\ RMul(r.mass.inverse, total) = One
                /\ \A k \in 1..3 :
                    RMul(r.center_of_mass[k], total) =
                        RAdd(RMul(a.center_of_mass[k], Mass1(n)),
                             RMul(x.center_of_mass[k], Mass2(n)))
                /\ \A i \in 1..3, j \in 1..3 :
                    r.angular_inertia[i][j] =
                        RAdd(ParallelAxis(a.angular_inertia, Mass1(n),
                                          VSub(a.center_of_mass, r.center_of_mass), i, j),
                             ParallelAxis(x.angular_inertia, Mass2(n),
                                          VSub(x.center_of_mass, r.center_of_mass), i, j))
    /\ world = "mass_properties_add_assign_works" =>
        /\ mass_props.mass.value = Frac(97, 10)
        /\ mass_props.mass.inverse = Frac(10, 97)
        /\ Near(mass_props.center_of_mass[1], Frac(375257, 1000000), Millionth)
        /\ Near(mass_props.center_of_mass[2], Frac(835051, 1000000), Millionth)
        /\ mass_props.center_of_mass[3] = Zero

C5_Witness ==
    \E n \in Ops :
        /\ log[n].op = "add"
        /\ RLt(Zero, Mass1(n))
        /\ RLt(Zero, Mass2(n))
        /\ log[n].before.center_of_mass # log[n].rhs.center_of_mass
        /\ log[n].before.angular_inertia # MZero
        /\ log[n].rhs.angular_inertia # MZero
        /\ After(n).center_of_mass \notin {log[n].before.center_of_mass, log[n].rhs.center_of_mass}

\* C6: a -= with mass1 + mass2 > 0 leaves mass = max(mass1 - mass2, 0); the center of
\* mass is (com1 mass1 - com2 mass2) / mass when that mass exceeds EPSILON and com1
\* otherwise, and is never the result of a division by zero; the inertia is the
\* aggregate's moved to the new center of mass minus the contribution's moved to it;
\* 8.1 at (-3.8, 0, 0) -= 1.6 at (1.2, 1, 0) gives 6.5 at (-5.030769, -0.246153, 0).
C6_RemoveResult ==
    /\ \A n \in Ops :
        log[n].op = "sub" /\ RLt(Zero, RAdd(Mass1(n), Mass2(n))) =>
            LET a == log[n].before
                x == log[n].rhs
                r == After(n)
                left == IF RLt(Mass2(n), Mass1(n)) THEN RSub(Mass1(n), Mass2(n)) ELSE Zero
            IN  /\ r.mass.value = left
                /\ IF left = Zero THEN r.mass.inverse = Zero
                   ELSE RMul(r.mass.inverse, left) = One
                /\ \A k \in 1..3 :
                    /\ ~IsNaN(r.center_of_mass[k])
                    /\ IF RLt(EPSILON, left)
                       THEN RMul(r.center_of_mass[k], left) =
                                RSub(RMul(a.center_of_mass[k], Mass1(n)),
                                     RMul(x.center_of_mass[k], Mass2(n)))
                       ELSE r.center_of_mass[k] = a.center_of_mass[k]
                /\ \A i \in 1..3, j \in 1..3 :
                    r.angular_inertia[i][j] =
                        RSub(ParallelAxis(a.angular_inertia, Mass1(n),
                                          VSub(a.center_of_mass, r.center_of_mass), i, j),
                             ParallelAxis(x.angular_inertia, Mass2(n),
                                          VSub(x.center_of_mass, r.center_of_mass), i, j))
    /\ world = "mass_properties_sub_assign_works" =>
        /\ mass_props.mass.value = Frac(65, 10)
        /\ mass_props.mass.inverse = Frac(10, 65)
        /\ Near(mass_props.center_of_mass[1], Frac(-5030769, 1000000), Millionth)
        /\ Near(mass_props.center_of_mass[2], Frac(-246153, 1000000), Millionth)
        /\ mass_props.center_of_mass[3] = Zero

\* a -= that leaves a mass above zero but not above EPSILON, away from com2
C6_Witness ==
    \E n \in Ops :
        /\ log[n].op = "sub"
        /\ RLt(Zero, After(n).mass.value)
        /\ RLe(After(n).mass.value, EPSILON)
        /\ RLt(Zero, Mass2(n))
        /\ log[n].before.center_of_mass # log[n].rhs.center_of_mass
        /\ After(n).center_of_mass = log[n].before.center_of_mass

(***************************************************************************)
(* Properties of the effective properties (SpecBody)                       *)
(***************************************************************************)
\* C2: for a Kinematic or Static body, whatever its LockedAxes, Dominance, mass and
\* inertia, the effective inverse mass is the zero vector, the effective world
\* inverse inertia is zero and dominance() is 127.
C2_NonDynamic ==
    answer # None /\ body.rb \in {"Kinematic", "Static"} =>
        /\ Unwrap(answer).effective_inv_mass = <<Zero, Zero, Zero>>
        /\ Unwrap(answer).effective_world_inv_inertia =
               <<<<Zero, Zero, Zero>>, <<Zero, Zero, Zero>>, <<Zero, Zero, Zero>>>>
        /\ Unwrap(answer).dominance = 127

C2_Witness ==
    /\ answer # None
    /\ Unwrap(answer).item = "RigidBodyQueryItem"
    /\ body.rb = "Kinematic"
    /\ body.mass.inverse # Zero
    /\ body.locked_axes = None
    /\ body.dominance = Some(5)
    /\ Unwrap(answer).dominance = 127

(***************************************************************************)
(* Properties of the prepare schedule (SpecRestitution, SpecPrepare)       *)
(***************************************************************************)
In01(x) == RLe(Zero, x) /\ RLe(x, One)

Coefficient(es, e) == Unwrap(es[e].restitution).coefficient

\* C3: when Finalize has run, every Restitution coefficient lies in [0, 1]: one that
\* was outside has been brought inside, one that was inside is unchanged; this holds
\* after the Finalize of every step, whatever was authored and stepped before.
C3_RestitutionClamp ==
    pc = "Finalize" =>
        \A e \in Entities :
            ents[e].restitution # None =>
                /\ In01(Coefficient(ents, e))
                /\ In01(Coefficient(snapshot, e)) => Coefficient(ents, e) = Coefficient(snapshot, e)

C3_Witness ==
    /\ pc = "Finalize"
    /\ \E e \in Entities :
        /\ ents[e].restitution # None
        /\ Coefficient(snapshot, e) = R(2)
        /\ Coefficient(ents, e) = One
    /\ \E e \in Entities :
        /\ ents[e].restitution # None
        /\ Coefficient(snapshot, e) = Frac(1, 2)
        /\ Coefficient(ents, e) = Frac(1, 2)

\* init_transforms has just run and e is one of the rigid bodies it processed
Processed(e) ==
    /\ pc = "InitTransforms"
    /\ config.position_to_transform \/ config.transform_to_position
    /\ InitQuery(snapshot, e)

Local(e) == Unwrap(snapshot[e].transform)

Global(e) == Unwrap(snapshot[e].global_transform)

HasParent(e) == snapshot[e].parent # None

\* the parent's absolute scene transform, if it has one
ParentGlobal(e) == snapshot[Unwrap(snapshot[e].parent)].global_transform

Cross(u, v) ==
    <<RSub(RMul(u[2], v[3]), RMul(u[3], v[2])),
      RSub(RMul(u[3], v[1]), RMul(u[1], v[3])),
      RSub(RMul(u[1], v[2]), RMul(u[2], v[1]))>>

\* v turned by the unit quaternion q: v + 2 w (u x v) + 2 u x (u x v)
Turned(q, v) ==
    LET u == <<q[1], q[2], q[3]>>
        uv == Cross(u, v)
    IN  VAdd(v, VAdd(VScale(uv, RMul(R(2), q[4])), VScale(Cross(u, uv), R(2))))

\* an absolute transform applied to a point: scale, turn, translate
Applied(gt, p) == VAdd(Turned(gt.rotation, VScale(p, gt.scale)), gt.translation)

SameRotation(p, q) == p = q \/ p = <<RNeg(q[1]), RNeg(q[2]), RNeg(q[3]), RNeg(q[4])>>

\* C9: in the position_to_transform direction a new rigid body with a parent gets
\* local translation = (Position - the parent's absolute translation) un-rotated by
\* the parent's absolute rotation and local rotation = inverse(parent's absolute
\* rotation) * Rotation; one without a parent gets Position and Rotation unchanged
\* as its Transform's translation and rotation.
C9_PositionToTransform ==
    \A e \in Entities :
        Processed(e) /\ ~config.transform_to_position /\ config.position_to_transform =>
            IF HasParent(e) /\ ParentGlobal(e) # None
            THEN LET parent == Unwrap(ParentGlobal(e))
                 IN  /\ Unwrap(ents[e].transform).translation =
                            Turned(QInverse(parent.rotation),
                                   VSub(Unwrap(snapshot[e].position), parent.translation))
                     /\ SameRotation(Unwrap(ents[e].transform).rotation,
                                     QMul(QInverse(parent.rotation), Unwrap(snapshot[e].rotation)))
            ELSE /\ Unwrap(ents[e].transform).translation = Unwrap(snapshot[e].position)
                 /\ Unwrap(ents[e].transform).rotation = Unwrap(snapshot[e].rotation)

\* C10: when init_transforms has processed a new rigid body that has a
\* PreviousRotation, the PreviousRotation equals the Rotation the body ends with:
\* the value just computed in the transform_to_position direction, the unchanged
\* value in the position_to_transform direction.
C10_PreviousRotation ==
    \A e \in Entities :
        Processed(e) /\ snapshot[e].previous_rotation # None =>
            /\ ents[e].previous_rotation = ents[e].rotation
            /\ ~config.transform_to_position => ents[e].rotation = snapshot[e].rotation
            /\ config.transform_to_position =>
                ents[e].rotation =
                    IF ~HasParent(e) THEN Some(Global(e).rotation)
                    ELSE IF ParentGlobal(e) # None
                         THEN Some(QMul(Unwrap(ParentGlobal(e)).rotation, Local(e).rotation))
                         ELSE Some(Local(e).rotation)

C10_Witness ==
    /\ \E e \in Entities :
        /\ Processed(e)
        /\ config.transform_to_position
        /\ snapshot[e].previous_rotation # None
        /\ ents[e].rotation # snapshot[e].rotation
        /\ ents[e].previous_rotation # snapshot[e].previous_rotation
        /\ ents[e].previous_rotation = ents[e].rotation
    /\ \E e \in Entities :
        /\ Processed(e)
        /\ snapshot[e].previous_rotation = None
        /\ ents[e].previous_rotation = None

(***************************************************************************)
(* Properties of the steps of the schedule (SpecPrepare, SpecSteps)        *)
(***************************************************************************)
PhaseOrder ==
    {<<"Idle", "First">>, <<"First", "PropagateTransforms">>,
     <<"PropagateTransforms", "InitTransforms">>, <<"InitTransforms", "Finalize">>,
     <<"Finalize", "Idle">>}

\* what init_transforms may write on e differs across the step
Initialised(e) ==
    \/ ents'[e].position # ents[e].position
    \/ ents'[e].rotation # ents[e].rotation
    \/ ents'[e].previous_rotation # ents[e].previous_rotation
    \/ ents'[e].transform # ents[e].transform

\* C11: in every step the phases run one after the other in the order First,
\* PropagateTransforms, InitTransforms, Finalize: a phase begins only when the one
\* before it has ended, absolute transforms are written only by PropagateTransforms,
\* which is over when InitTransforms writes Position, Rotation, PreviousRotation or
\* Transform, and that is over when Finalize writes a Restitution.
C11_PhaseOrder ==
    [][pc' # pc =>
        /\ <<pc, pc'>> \in PhaseOrder
        /\ \A e \in Entities :
            /\ ents'[e].global_transform # ents[e].global_transform
                   => pc = "First" /\ pc' = "PropagateTransforms"
            /\ Initialised(e) => pc = "PropagateTransforms" /\ pc' = "InitTransforms"
            /\ ents'[e].restitution # ents[e].restitution
                   => pc = "InitTransforms" /\ pc' = "Finalize"]_vars

\* a body at the end of a step in which all three systems have written it
C11_Witness ==
    /\ pc = "Finalize"
    /\ \E e \in Entities :
        /\ ents[e].rigid_body
        /\ ents[e].global_transform = ents[e].transform
        /\ ents[e].global_transform # Some(IdentityTransform)
        /\ ents[e].position = Some(Unwrap(ents[e].transform).translation)
        /\ ents[e].position # Some(VZero)
        /\ ents[e].restitution # None
        /\ Unwrap(ents[e].restitution).coefficient = One
        /\ ~Unwrap(ents[e].restitution).changed

\* e is a new rigid body without parent whose Transform is the default one
Unauthored(e) == Processed(e) /\ ~HasParent(e) /\ Local(e) = IdentityTransform

\* C12: with transform_to_position enabled, a rigid body without parent that was
\* spawned with a Position and/or a Rotation and no Transform has the same Position
\* and Rotation after init_transforms, the ones it was not spawned with being the
\* default ones.
C12_AuthoredPositionKept ==
    \A e \in Entities :
        Unauthored(e) /\ config.transform_to_position =>
            /\ ents[e].position = snapshot[e].position
            /\ ents[e].rotation = snapshot[e].rotation

\* C13: with position_to_transform enabled, also when transform_to_position is
\* enabled too, a rigid body without parent that was spawned with only a Transform
\* has the same Transform after init_transforms, one spawned with neither has the
\* default Transform, and an entity that is no rigid body gets no Transform,
\* Position or Rotation.
C13_AuthoredTransformKept ==
    pc = "InitTransforms" /\ config.position_to_transform =>
        \A e \in Entities :
            /\ /\ Processed(e)
               /\ ~HasParent(e)
               /\ snapshot[e].position = Some(VZero)
               /\ snapshot[e].rotation = Some(QIdentity)
               => ents[e].transform = snapshot[e].transform
            /\ snapshot[e].alive /\ ~snapshot[e].rigid_body =>
                /\ ents[e].transform = snapshot[e].transform
                /\ ents[e].position = None
                /\ ents[e].rotation = None

\* the absolute transform of a node with local transform t under one at gt
Composed(gt, t) ==
    [translation |-> Applied(gt, t.translation),
     rotation |-> QMul(gt.rotation, t.rotation),
     scale |-> RMul(gt.scale, t.scale)]

\* the absolute transform of e agrees with its Transform and its parent's
Propagated(e) ==
    ents[e].transform # None /\ ents[e].global_transform # None =>
        IF ents[e].parent = None
        THEN ents[e].global_transform = ents[e].transform
        ELSE LET above == ents[Unwrap(ents[e].parent)]
             IN  above.transform # None /\ above.global_transform # None =>
                     Unwrap(ents[e].global_transform) =
                         Composed(Unwrap(above.global_transform), Unwrap(ents[e].transform))

\* C14: in a step the propagation systems run if and only if some entity had a
\* RigidBody newly added since the previous run: then every absolute transform is
\* propagated; in a step without a new rigid body nothing is propagated, whatever
\* the scene transforms are.
C14_PropagateGate ==
    pc = "PropagateTransforms" =>
        IF \E e \in Entities : snapshot[e].alive /\ snapshot[e].rigid_body /\ snapshot[e].added
        THEN \A e \in Entities : Propagated(e)
        ELSE ents = snapshot

\* a step without a new rigid body has left a moved scene node where it was
C14_Witness ==
    /\ pc = "PropagateTransforms"
    /\ \E e \in Entities : ents[e].rigid_body /\ ~ents[e].added
    /\ \A e \in Entities : ~(snapshot[e].rigid_body /\ snapshot[e].added)
    /\ \E e \in Entities : ents[e].alive /\ ~Propagated(e)

\* C15: init_transforms processes an entity only in the step in which its RigidBody
\* was newly added: in every later step it leaves the entity's Position, Rotation,
\* PreviousRotation and Transform as they are, also when the integrator has moved
\* the body away from its Transform since.
C15_OneShot ==
    pc = "InitTransforms" =>
        \A e \in Entities :
            snapshot[e].alive /\ ~snapshot[e].added =>
                /\ ents[e].position = snapshot[e].position
                /\ ents[e].rotation = snapshot[e].rotation
                /\ ents[e].previous_rotation = snapshot[e].previous_rotation
                /\ ents[e].transform = snapshot[e].transform

\* a later step, some other body being new, with a body the integrator has moved
C15_Witness ==
    /\ pc = "InitTransforms"
    /\ config.transform_to_position
    /\ \E d \in Entities : Processed(d)
    /\ \E e \in Entities :
        /\ ents[e].rigid_body
        /\ ~snapshot[e].added
        /\ ents[e].position = Some(MovedPosition)
        /\ ents[e].rotation = Some(MovedRotation)
        /\ ents[e].previous_rotation # None
        /\ ents[e].previous_rotation # ents[e].rotation
        /\ Unwrap(ents[e].global_transform).translation # MovedPosition

(***************************************************************************)
(* Further properties of the effective properties (SpecBody)               *)
(***************************************************************************)
TranslationAxis == <<"TRANSLATION_X", "TRANSLATION_Y", "TRANSLATION_Z">>

\* C16: for a Dynamic body the effective inverse mass is the stored inverse mass on
\* every axis, zero on exactly the translation axes that LockedAxes holds, none when
\* LockedAxes is absent; the mutable and the read-only item give the same value.
C16_DynamicInverseMass ==
    answer # None /\ body.rb = "Dynamic" =>
        /\ \A i \in 1..3 :
            Unwrap(answer).effective_inv_mass[i] =
                IF body.locked_axes # None /\ TranslationAxis[i] \in Unwrap(body.locked_axes)
                THEN Zero
                ELSE body.mass.inverse
        /\ effective_inv_mass(body) = effective_inverse_mass(body)

C16_Witness ==
    /\ answer # None
    /\ Unwrap(answer).item = "RigidBodyQueryReadOnlyItem"
    /\ body.rb = "Dynamic"
    /\ body.mass.inverse = Frac(1, 2)
    /\ body.locked_axes = Some({"TRANSLATION_Y", "ROTATION_X"})
    /\ Unwrap(answer).effective_inv_mass = <<Frac(1, 2), Zero, Frac(1, 2)>>

(***************************************************************************)
(* Further properties of the mass algebra (SpecMassAny)                    *)
(***************************************************************************)
\* C17: from an aggregate of mass >= 0, after any sequence of += and -= with any
\* contributions, a -= of more mass than the aggregate holds included, the mass of
\* the aggregate is >= 0.
C17_MassNonNegative ==
    /\ RLe(Zero, mass_props.mass.value)
    /\ RLe(Zero, mass_props.mass.inverse)
    /\ \A i \in Ops : RLe(Zero, Mass1(i))

\* a -= of more than the aggregate holds has been applied, and one of negative mass
C17_Witness ==
    /\ \E i \in Ops :
        /\ log[i].op = "sub"
        /\ RLt(Zero, Mass1(i))
        /\ RLt(Mass1(i), Mass2(i))
        /\ After(i).mass.value = Zero
        /\ After(i) # log[i].before
    /\ \E i \in Ops :
        /\ RLt(Mass2(i), Zero)
        /\ After(i) # log[i].before

(***************************************************************************)
(* Further properties of init_transforms (SpecPrepare)                     *)
(***************************************************************************)
\* C18: with position_to_transform and transform_to_position both disabled,
\* init_transforms changes nothing: every new rigid body keeps its Position,
\* Rotation, PreviousRotation and Transform, and PreviousRotation is not set to
\* Rotation.
C18_BothDisabled ==
    /\ pc = "InitTransforms"
    /\ ~config.position_to_transform
    /\ ~config.transform_to_position
    => \A e \in Entities :
        /\ ents[e].position = snapshot[e].position
        /\ ents[e].rotation = snapshot[e].rotation
        /\ ents[e].previous_rotation = snapshot[e].previous_rotation
        /\ ents[e].transform = snapshot[e].transform

\* a new body whose PreviousRotation, Rotation and Transform all disagree
C18_Witness ==
    /\ pc = "InitTransforms"
    /\ ~config.position_to_transform
    /\ ~config.transform_to_position
    /\ \E e \in Entities :
        /\ InitQuery(snapshot, e)
        /\ ents[e].previous_rotation # None
        /\ ents[e].previous_rotation # ents[e].rotation
        /\ ents[e].position # Some(Unwrap(ents[e].global_transform).translation)
        /\ ents[e].rotation # Some(Unwrap(ents[e].global_transform).rotation)

==========================================================================
